---- MODULE Spec2Model ----
(***************************************************************************)
(* Model of template/config/index.js: the configuration composition        *)
(* pipeline.  A base config literal is built from env values, the overlay  *)
(* environments[env.NODE_ENV] is merged onto it with lodash's _.merge,     *)
(* derived fields are computed, collaborators (logger, i18n, mail          *)
(* transport) are constructed and attached, and the object is exported.    *)
(*                                                                         *)
(* JavaScript values are tagged records [t, s, v, p]:                      *)
(*   t = "s" primitive scalar, written in s ("true", "null", "1", "pug")   *)
(*   t = "u" undefined                                                     *)
(*   t = "o" plain object, v maps its own keys to values                   *)
(*   t = "a" array, v maps "0", "1", ... (and any named key) to values     *)
(*   t = "f" function, t = "h" constructed object (handle); s names it     *)
(*   t = "r" reference to the object stored at path p of the config        *)
(*           (a second pointer to the same heap object)                    *)
(***************************************************************************)
EXTENDS Integers, Sequences, FiniteSets, TLC

VARIABLES NODE_ENV, environments, config, base, prev, pc, error, exported,
          log, plugins, useCalls

vars == <<NODE_ENV, environments, config, base, prev, pc, error, exported,
          log, plugins, useCalls>>

(***************************************************************************)
(* Values                                                                  *)
(***************************************************************************)
NoKeys == [k \in {} |-> k]

Node(t, s, v, p) == [t |-> t, s |-> s, v |-> v, p |-> p]

Scalar(s) == Node("s", s, NoKeys, <<>>)

Undefined == Node("u", "", NoKeys, <<>>)

Null == Scalar("null")

Fn(name) == Node("f", name, NoKeys, <<>>)

Handle(name) == Node("h", name, NoKeys, <<>>)

Obj(v) == Node("o", "", v, <<>>)

Arr(v) == Node("a", "", v, <<>>)

Ref(p) == Node("r", "", NoKeys, p)

EmptyObj == Obj(NoKeys)

EmptyArr == Arr(NoKeys)

\* The index keys of arrays, in order.
IndexKeys == <<"0", "1", "2", "3", "4", "5">>

IndexSet == {IndexKeys[i] : i \in 1..Len(IndexKeys)}

\* The array literal [e1, ..., en].
ArrOf(seq) == Arr([k \in {IndexKeys[i] : i \in 1..Len(seq)} |->
                     seq[CHOOSE i \in 1..Len(seq) : IndexKeys[i] = k]])

\* obj[key] on an object-like node: undefined when the key is absent.
Own(n, key) == IF key \in DOMAIN n.v THEN n.v[key] ELSE Undefined

(***************************************************************************)
(* lodash predicates and _.merge                                           *)
(***************************************************************************)
isObject(n) == n.t \in {"o", "a", "f", "h", "r"}

isPlainObject(n) == n.t = "o"

isArray(n) == n.t = "a"

isFunction(n) == n.t = "f"

RECURSIVE baseMerge(_, _)

\* Mutant of baseMergeDeep: an overlay array is appended to a base array.
baseMergeDeepConcat(objValue, srcValue) ==
    IF isArray(srcValue) /\ isArray(objValue)
    THEN LET n == Cardinality(DOMAIN objValue.v \cap IndexSet)
             m == Cardinality(DOMAIN srcValue.v \cap IndexSet)
         IN Arr([k \in {IndexKeys[i] : i \in 1..(n + m)} |->
                LET i == CHOOSE j \in 1..(n + m) : IndexKeys[j] = k
                IN IF i <= n THEN objValue.v[k] ELSE srcValue.v[IndexKeys[i - n]]])
    ELSE IF isArray(srcValue) THEN baseMerge(EmptyArr, srcValue)
    ELSE IF isPlainObject(srcValue)
         THEN baseMerge(IF ~isObject(objValue) \/ isFunction(objValue)
                        THEN EmptyObj ELSE objValue, srcValue)
    ELSE srcValue

\* lodash baseMergeDeep without a customizer: an array or plain-object
\* source value is merged key by key into the destination value (into a
\* fresh [] or {} when the destination is not of a mergeable kind); any
\* other object is assigned by reference.
baseMergeDeep(objValue, srcValue) ==
    IF isArray(srcValue)
    THEN baseMerge(IF isArray(objValue) THEN objValue ELSE EmptyArr, srcValue)
    ELSE IF isPlainObject(srcValue)
         THEN baseMerge(IF ~isObject(objValue) \/ isFunction(objValue)
                        THEN EmptyObj ELSE objValue, srcValue)
    ELSE srcValue

\* lodash baseMerge: for every key of the source, deep-merge an object
\* value and assign any other value (assignMergeValue: an undefined source
\* value is assigned only when the destination lacks the key).
baseMerge(object, source) ==
    [object EXCEPT !.v =
        [key \in DOMAIN object.v \cup DOMAIN source.v |->
            IF key \notin DOMAIN source.v THEN object.v[key]
            ELSE LET srcValue == source.v[key]
                     objValue == Own(object, key)
                 IN IF isObject(srcValue) THEN baseMergeDeep(objValue, srcValue)
                    ELSE IF srcValue = Undefined /\ key \in DOMAIN object.v
                         THEN objValue
                         ELSE srcValue]]

\* Mutant of SelectedOverlay: falls back to the production overlay.
SelectedOverlayDefaulting(table, name) ==
    IF name \in DOMAIN table THEN table[name]
    ELSE IF "production" \in DOMAIN table THEN table["production"]
    ELSE Undefined

\* environments[env.NODE_ENV]
SelectedOverlay(table, name) ==
    IF name \in DOMAIN table THEN table[name] ELSE Undefined

\* if (_.isObject(environments[env.NODE_ENV])) _.merge(config, ...)
mergeEnvironment(cfg, table, name) ==
    LET overlay == SelectedOverlay(table, name)
    IN IF isObject(overlay) THEN baseMerge(cfg, overlay) ELSE cfg

(***************************************************************************)
(* JavaScript property reads and writes on the config graph                *)
(***************************************************************************)
\* The outcome of an evaluation that raises a TypeError.
Throw == Node("x", "TypeError", NoKeys, <<>>)

isNullish(n) == n = Undefined \/ n = Null

RECURSIVE At(_, _)
\* The value stored at path p below root (undefined where nothing is).
At(root, p) == IF p = <<>> THEN root ELSE At(Own(root, Head(p)), Tail(p))

\* The object a stored value denotes: a reference denotes its target.
Deref(root, n) == IF n.t = "r" THEN At(root, n.p) ELSE n

RECURSIVE Read(_, _, _)
\* cur.k1.k2...: a property of null or undefined raises, a property of a
\* primitive is undefined.
Read(root, cur, path) ==
    IF path = <<>> THEN cur
    ELSE LET o == Deref(root, cur)
         IN IF o = Throw \/ isNullish(o) THEN Throw
            ELSE Read(root, Own(o, Head(path)), Tail(path))

RECURSIVE Canon(_, _, _)
\* The path where the object reached by cp.k1.k2... is stored.
Canon(root, cp, path) ==
    IF path = <<>> THEN cp
    ELSE LET child == Own(At(root, cp), Head(path))
         IN Canon(root,
                  IF child.t = "r" THEN child.p ELSE Append(cp, Head(path)),
                  Tail(path))

RECURSIVE PutAt(_, _, _)
PutAt(n, p, val) ==
    IF p = <<>> THEN val
    ELSE [n EXCEPT !.v =
            [k \in DOMAIN n.v \cup {Head(p)} |->
                IF k = Head(p) THEN PutAt(Own(n, k), Tail(p), val)
                ELSE n.v[k]]]

\* config.k1...kn = val in a module without "use strict": raises when
\* config.k1...k(n-1) is null or undefined, is silently dropped when it is
\* a primitive, and otherwise sets the property of the object it denotes.
Assign(root, path, val) ==
    LET par    == SubSeq(path, 1, Len(path) - 1)
        target == Deref(root, Read(root, root, par))
    IN IF target = Throw \/ isNullish(target) THEN Throw
       ELSE IF ~isObject(target) THEN root
       ELSE PutAt(root, Append(Canon(root, <<>>, par), path[Len(path)]), val)

(***************************************************************************)
(* The statements of the module, in program order                          *)
(***************************************************************************)
Stages == <<"merge", "hasThirdPartyProviders", "meta", "logger", "i18n",
            "translate", "localsConfig", "createTransport", "use",
            "emailViews", "emailViewsRoot", "emailI18n", "webResources",
            "exports">>

StageIndex(s) == CHOOSE i \in 1..Len(Stages) : Stages[i] = s

\* Mutant of NextStage: the meta derivation is placed before the
\* hasThirdPartyProviders derivation.
NextStageMetaFirst(s) ==
    IF s = "merge" THEN "meta"
    ELSE IF s = "meta" THEN "hasThirdPartyProviders"
    ELSE IF s = "hasThirdPartyProviders" THEN "logger"
    ELSE IF s = "exports" THEN "done"
    ELSE Stages[StageIndex(s) + 1]

\* The statement that follows statement s.
NextStage(s) ==
    IF s = "exports" THEN "done" ELSE Stages[StageIndex(s) + 1]

\* Statement s completed with the config now cfg.
Completes(s, cfg) ==
    /\ config' = cfg
    /\ prev' = config
    /\ pc' = NextStage(s)
    /\ log' = Append(log, s)
    /\ error' = error

\* Mutant of Raises: the error is recorded and the next statement runs.
RaisesAndContinues(s, err) ==
    /\ pc' = NextStage(s)
    /\ error' = err
    /\ log' = Append(log, s)
    /\ UNCHANGED <<config, prev>>

\* Statement s raised err: nothing catches it, the module stops loading.
Raises(s, err) ==
    /\ pc' = "aborted"
    /\ error' = err
    /\ log' = Append(log, s)
    /\ UNCHANGED <<config, prev>>

(***************************************************************************)
(* line 238: merge environment configurations                              *)
(***************************************************************************)
MergeEnvironment ==
    /\ pc = "merge"
    /\ Completes("merge", mergeEnvironment(config, environments, NODE_ENV))
    /\ UNCHANGED <<NODE_ENV, environments, base, exported, plugins, useCalls>>

\* The merge statement applied a second time to its own result.
MergeAgain ==
    /\ pc = "hasThirdPartyProviders"
    /\ log = <<"merge">>
    /\ config' = mergeEnvironment(config, environments, NODE_ENV)
    /\ prev' = config
    /\ log' = Append(log, "merge")
    /\ UNCHANGED <<NODE_ENV, environments, base, pc, error, exported, plugins,
                   useCalls>>

(***************************************************************************)
(* Merge laws: bases and overlay tables drawn from bounded value trees     *)
(***************************************************************************)
MaxArrLen == 2

EnvNames == {"production", "test"}

RunNames == EnvNames \cup {"development"}

GLeaves == {Scalar("1"), Scalar("2"), Undefined, Fn("g")}

GArrays(V) == {ArrOf(s) : s \in UNION {[1..n -> V] : n \in 0..MaxArrLen}}

GObjects(K, V) == {Obj(f) : f \in UNION {[D -> V] : D \in SUBSET K}}

GLevel1 == GLeaves \cup GArrays(GLeaves) \cup GObjects({"a", "b"}, GLeaves)

GBases == GObjects({"a"}, GLevel1)

GEntries == GBases \cup GLeaves \cup GArrays(GLeaves)

GTables == {[n \in D |-> IF n = "production" THEN e ELSE o] :
              D \in SUBSET EnvNames, e \in GEntries,
              o \in {Obj("a" :> Scalar("2")), Scalar("1")}}

MergeInit ==
    /\ NODE_ENV \in RunNames
    /\ environments \in GTables
    /\ config \in GBases
    /\ base = config
    /\ prev = config
    /\ pc = "merge"
    /\ error = "none"
    /\ exported = EmptyObj
    /\ log = <<>>
    /\ plugins = <<>>
    /\ useCalls = 0

MergeNext == MergeEnvironment \/ MergeAgain

SpecMerge == MergeInit /\ [][MergeNext]_vars

\* The overlay the merge statement selects.
Overlay == SelectedOverlay(environments, NODE_ENV)

\* C1 (as stated): after the overlay is applied, an overlay array at a key
\* has replaced whatever the base held at that key: it is never combined
\* element by element with the base array.
C1_OverlayArrayReplaces ==
    (log = <<"merge">> /\ isPlainObject(Overlay)) =>
        \A k \in DOMAIN Overlay.v :
            isArray(Overlay.v[k]) => config.v[k] = Overlay.v[k]

\* C3: when the table has no entry for the environment name, or the entry
\* is empty, or the entry is not a structured value, the merge statement
\* leaves the config equal to the base and raises nothing.
C3_NoOverlayIsIdentity ==
    (log = <<"merge">> /\ (NODE_ENV \notin DOMAIN environments
                           \/ ~isObject(Overlay)
                           \/ DOMAIN Overlay.v = {})) =>
        (config = base /\ error = "none" /\ pc # "aborted")

C3_Witness ==
    /\ log = <<"merge">>
    /\ NODE_ENV \notin DOMAIN environments
    /\ "production" \in DOMAIN environments
    /\ isPlainObject(environments["production"])
    /\ DOMAIN environments["production"].v # {}
    /\ DOMAIN base.v # {}

\* C4: merging the same overlay onto the result of the merge again yields
\* a config structurally identical to the result of the first merge.
C4_MergeIdempotent ==
    (log = <<"merge", "merge">>) => config = prev

C4_Witness ==
    /\ log = <<"merge", "merge">>
    /\ isPlainObject(Overlay)
    /\ prev # base
    /\ \E k \in DOMAIN Overlay.v :
          isArray(Overlay.v[k]) /\ isArray(Own(base, k))
          /\ DOMAIN Overlay.v[k].v # {} /\ DOMAIN base.v[k].v # {}

(***************************************************************************)
(* lines 18-235: the base config literal, projected on the fields the      *)
(* pipeline reads or writes                                                *)
(***************************************************************************)
ProviderNames == {"facebook", "twitter", "google", "github", "linkedin",
                  "instagram", "stripe"}

Bool(b) == IF b THEN Scalar("true") ELSE Scalar("false")

\* auth: { local: env.AUTH_LOCAL_ENABLED, providers: { facebook: ..., } }
BaseAuth(local, flags) ==
    Obj(("local" :> Bool(local)) @@
        ("providers" :> Obj([n \in ProviderNames |-> Bool(flags[n])])))

\* views: { root, options: { extension: 'pug', map: {} },
\*          locals: { pretty: true, filters: {} } }
BaseViews ==
    Obj(("root" :> Scalar("app/views")) @@
        ("options" :> Obj(("extension" :> Scalar("pug")) @@ ("map" :> EmptyObj))) @@
        ("locals" :> Obj(("pretty" :> Scalar("true")) @@ ("filters" :> EmptyObj))))

\* email: { message, send, juiceResources: { preserveImportant: true } }
BaseEmail ==
    Obj(("send" :> Scalar("true")) @@
        ("juiceResources" :> Obj("preserveImportant" :> Scalar("true"))))

BaseConfig(local, flags) ==
    Obj(("appName" :> Scalar("Lad")) @@
        ("buildDir" :> Scalar("build")) @@
        ("i18n" :> Obj("directory" :> Scalar("locales"))) @@
        ("views" :> BaseViews) @@
        ("auth" :> BaseAuth(local, flags)) @@
        ("email" :> BaseEmail))

(***************************************************************************)
(* lines 240-244: derived computation                                      *)
(***************************************************************************)
\* Scalars of the model that are not strings.
NonStrings == {"true", "false", "null", "0", "1", "2"}

\* JavaScript truthiness, the predicate bool => bool.
Truthy(n) ==
    IF n.t = "s" THEN n.s \notin {"false", "null", "0", ""} ELSE n.t # "u"

\* Mutant of some: _.every is called in its place.
every(collection) ==
    IF collection.t \in {"o", "a", "f", "h"}
    THEN \A k \in DOMAIN collection.v : Truthy(collection.v[k])
    ELSE TRUE

\* _.some(collection, bool => bool): an array is tested at its indexes, any
\* other object at its own keys, a string at its characters; null,
\* undefined and the other primitives have nothing to test.
some(collection) ==
    IF isArray(collection)
    THEN \E k \in DOMAIN collection.v \cap IndexSet : Truthy(collection.v[k])
    ELSE IF collection.t \in {"o", "f", "h"}
         THEN \E k \in DOMAIN collection.v : Truthy(collection.v[k])
    ELSE collection.t = "s" /\ collection.s \notin NonStrings /\ collection.s # ""

\* Statement s leaves the config as cfg, or raised while computing it.
Step(s, cfg) ==
    IF cfg = Throw THEN Raises(s, "TypeError") ELSE Completes(s, cfg)

\* config.auth.hasThirdPartyProviders = _.some(config.auth.providers, ...)
DeriveProviders ==
    /\ pc = "hasThirdPartyProviders"
    /\ LET coll == Read(config, config, <<"auth", "providers">>)
       IN IF coll = Throw THEN Raises("hasThirdPartyProviders", "TypeError")
          ELSE Step("hasThirdPartyProviders",
                    Assign(config, <<"auth", "hasThirdPartyProviders">>,
                           Bool(some(Deref(config, coll)))))
    /\ UNCHANGED <<NODE_ENV, environments, base, exported, plugins, useCalls>>

\* meta(config): page metadata synthesized from the app name.
meta(cfg) ==
    Obj("home" :> Obj("title" :> Read(cfg, cfg, <<"appName">>)))

\* config.meta = meta(config)
DeriveMeta ==
    /\ pc = "meta"
    /\ Step("meta", Assign(config, <<"meta">>, meta(config)))
    /\ UNCHANGED <<NODE_ENV, environments, base, exported, plugins, useCalls>>

\* A constructor or factory called by statement s raises.
CollaboratorFails(s) ==
    /\ pc = s
    /\ Raises(s, "Error")
    /\ UNCHANGED <<NODE_ENV, environments, base, exported, plugins, useCalls>>

MetaFails == CollaboratorFails("meta")

(***************************************************************************)
(* lines 246-284: augmentation                                             *)
(***************************************************************************)
\* const logger = new Logger(config.logger)
NewLogger ==
    /\ pc = "logger"
    /\ Completes("logger", config)
    /\ UNCHANGED <<NODE_ENV, environments, base, exported, plugins, useCalls>>

LoggerFails == CollaboratorFails("logger")

\* const i18n = new I18N({ ...config.i18n, logger })
NewI18N ==
    /\ pc = "i18n"
    /\ Completes("i18n", config)
    /\ UNCHANGED <<NODE_ENV, environments, base, exported, plugins, useCalls>>

I18NFails == CollaboratorFails("i18n")

\* config.views.locals.filters.translate = function() { ... }
AttachTranslate ==
    /\ pc = "translate"
    /\ Step("translate",
            Assign(config, <<"views", "locals", "filters", "translate">>,
                   Fn("translate")))
    /\ UNCHANGED <<NODE_ENV, environments, base, exported, plugins, useCalls>>

\* The pointer the expression config.k1...kn evaluates to: a reference to
\* the object stored there, or the primitive itself.
Pointer(root, path) ==
    LET n == Read(root, root, path)
    IN IF n.t \in {"o", "a", "f", "h"} THEN Ref(Canon(root, <<>>, path)) ELSE n

\* config.views.locals.config = config
AttachLocalsConfig ==
    /\ pc = "localsConfig"
    /\ Step("localsConfig",
            Assign(config, <<"views", "locals", "config">>, Pointer(config, <<>>)))
    /\ UNCHANGED <<NODE_ENV, environments, base, exported, plugins, useCalls>>

\* config.email.transport = nodemailer.createTransport({ ... })
CreateTransport ==
    /\ pc = "createTransport"
    /\ Step("createTransport",
            Assign(config, <<"email", "transport">>, Handle("transport")))
    /\ plugins' = <<>>
    /\ UNCHANGED <<NODE_ENV, environments, base, exported, useCalls>>

CreateTransportFails == CollaboratorFails("createTransport")

\* Mutant of registered: the middleware is pushed twice.
registeredTwice(list, plugin) == Append(Append(list, plugin), plugin)

\* transport.use('compile', plugin) appends the plugin to the compile list.
registered(list, plugin) == Append(list, plugin)

\* config.email.transport.use('compile', base64ToS3({ ... }))
UseCompile ==
    /\ pc = "use"
    /\ IF Read(config, config, <<"email", "transport">>) = Handle("transport")
       THEN /\ Completes("use", config)
            /\ plugins' = registered(plugins, "base64ToS3")
            /\ useCalls' = useCalls + 1
       ELSE /\ Raises("use", "TypeError")
            /\ UNCHANGED <<plugins, useCalls>>
    /\ UNCHANGED <<NODE_ENV, environments, base, exported>>

\* base64ToS3({ ... }) raises; the arguments are evaluated once the callee
\* config.email.transport.use has been.
Base64ToS3Fails ==
    /\ Read(config, config, <<"email", "transport">>) = Handle("transport")
    /\ CollaboratorFails("use")

\* Mutant of objectAssign: the views object itself is handed back.
objectAssignAlias(root, path) == Pointer(root, path)

\* Object.assign({}, config.k1...kn): a new object with the source's own
\* keys, each holding the same pointer or primitive as the source.
objectAssign(root, path) ==
    LET src == Deref(root, Read(root, root, path))
    IN Obj([k \in DOMAIN src.v |-> Pointer(root, Append(path, k))])

\* config.email.views = Object.assign({}, config.views)
BuildEmailViews ==
    /\ pc = "emailViews"
    /\ Step("emailViews",
            Assign(config, <<"email", "views">>, objectAssign(config, <<"views">>)))
    /\ UNCHANGED <<NODE_ENV, environments, base, exported, plugins, useCalls>>

\* config.email.views.root = path.join(__dirname, '..', 'emails')
SetEmailViewsRoot ==
    /\ pc = "emailViewsRoot"
    /\ Step("emailViewsRoot",
            Assign(config, <<"email", "views", "root">>, Scalar("emails")))
    /\ UNCHANGED <<NODE_ENV, environments, base, exported, plugins, useCalls>>

\* config.email.i18n = config.i18n
SetEmailI18n ==
    /\ pc = "emailI18n"
    /\ Step("emailI18n",
            Assign(config, <<"email", "i18n">>, Pointer(config, <<"i18n">>)))
    /\ UNCHANGED <<NODE_ENV, environments, base, exported, plugins, useCalls>>

\* config.email.juiceResources.webResources = { relativeTo: config.buildDir }
SetWebResources ==
    /\ pc = "webResources"
    /\ Step("webResources",
            Assign(config, <<"email", "juiceResources", "webResources">>,
                   Obj("relativeTo" :> Pointer(config, <<"buildDir">>))))
    /\ UNCHANGED <<NODE_ENV, environments, base, exported, plugins, useCalls>>

\* module.exports = config
Export ==
    /\ pc = "exports"
    /\ Completes("exports", config)
    /\ exported' = Pointer(config, <<>>)
    /\ UNCHANGED <<NODE_ENV, environments, base, plugins, useCalls>>

(***************************************************************************)
(* The pipeline: env values and overlay tables the deployment can supply   *)
(***************************************************************************)
T == Scalar("true")

F == Scalar("false")

Under(key, values) == {Obj(key :> x) : x \in values}

AuthOverlays ==
    Under("auth",
          {Null, Scalar("x"), EmptyArr, Obj("local" :> T), Obj("local" :> F)}
          \cup Under("providers",
                     {Null, Undefined, Scalar("x"), Scalar("0"), EmptyObj,
                      ArrOf(<<T>>), ArrOf(<<F>>),
                      Obj("facebook" :> T), Obj("facebook" :> F),
                      Obj("facebook" :> Scalar("1")),
                      Obj(("google" :> T) @@ ("github" :> F)),
                      Obj("custom" :> T)}))

ViewsOverlays ==
    Under("views",
          {Null, Scalar("x"), EmptyArr,
           Obj("root" :> Scalar("themes")),
           Obj("options" :> Null),
           Obj("options" :> Obj("extension" :> Scalar("ejs"))),
           Obj("extra" :> Obj("a" :> Scalar("1"))),
           Obj("locals" :> Null),
           Obj("locals" :> Obj("filters" :> Null)),
           Obj("locals" :> Obj("filters" :> Scalar("x")))})

EmailOverlays ==
    Under("email",
          {Null, Scalar("x"), EmptyArr, Fn("g"),
           Obj("send" :> F),
           Obj("transport" :> Scalar("x")),
           Obj("views" :> Obj("root" :> Scalar("x"))),
           Obj("juiceResources" :> Null),
           Obj("juiceResources" :> Scalar("x"))})

OtherOverlays ==
    {EmptyObj, EmptyArr, ArrOf(<<Scalar("x")>>), Scalar("x"), Null, Fn("g"),
     Obj("appName" :> Scalar("App")), Obj("i18n" :> Null),
     Obj("buildDir" :> Obj("a" :> Scalar("1")))}

Entries == AuthOverlays \cup ViewsOverlays \cup EmailOverlays \cup OtherOverlays

Tables == {[n \in EnvNames |-> IF n = "production" THEN e ELSE EmptyObj] :
             e \in Entries}

Init ==
    /\ NODE_ENV \in {"development", "production"}
    /\ environments \in Tables
    /\ \E local \in BOOLEAN, flags \in [ProviderNames -> BOOLEAN] :
          config = BaseConfig(local, flags)
    /\ base = config
    /\ prev = config
    /\ pc = "merge"
    /\ error = "none"
    /\ exported = EmptyObj
    /\ log = <<>>
    /\ plugins = <<>>
    /\ useCalls = 0

Next ==
    \/ MergeEnvironment
    \/ DeriveProviders
    \/ DeriveMeta
    \/ MetaFails
    \/ NewLogger
    \/ LoggerFails
    \/ NewI18N
    \/ I18NFails
    \/ AttachTranslate
    \/ AttachLocalsConfig
    \/ CreateTransport
    \/ CreateTransportFails
    \/ UseCompile
    \/ Base64ToS3Fails
    \/ BuildEmailViews
    \/ SetEmailViewsRoot
    \/ SetEmailI18n
    \/ SetWebResources
    \/ Export

Spec == Init /\ [][Next]_vars

(***************************************************************************)
(* Consumers of the exported object                                        *)
(***************************************************************************)
ConsumerPaths == {<<"appName">>, <<"auth", "hasThirdPartyProviders">>}

\* A consumer that required the module assigns to a field of the object it
\* was given: module.exports is the config object itself, not a frozen copy.
ConsumerWrite ==
    /\ pc = "done"
    /\ exported = Pointer(config, <<>>)
    /\ \E path \in ConsumerPaths :
          /\ Assign(config, path, Scalar("x")) # Throw
          /\ config' = Assign(config, path, Scalar("x"))
    /\ prev' = config
    /\ UNCHANGED <<NODE_ENV, environments, base, pc, error, exported, log,
                   plugins, useCalls>>

ConsumerNext == Next \/ ConsumerWrite

SpecConsumers == Init /\ [][ConsumerNext]_vars

(***************************************************************************)
(* Properties                                                              *)
(***************************************************************************)
\* The config as the merge statement leaves it.
Merged == mergeEnvironment(base, environments, NODE_ENV)

\* Statement number i of the module has completed.
Completed(i) == Len(log) >= i /\ ~(pc = "aborted" /\ Len(log) = i)

IsExported == exported # EmptyObj

MergedProviders == Deref(Merged, Read(Merged, Merged, <<"auth", "providers">>))

\* C2: once the derivation has run, and config.auth.providers as merged is
\* a mapping of boolean flags, hasThirdPartyProviders is true exactly when
\* at least one of the flags is true, whatever config.auth.local is.
C2_HasThirdPartyProviders ==
    (/\ Completed(2)
     /\ isPlainObject(MergedProviders)
     /\ \A k \in DOMAIN MergedProviders.v : MergedProviders.v[k] \in {T, F}) =>
        At(config, <<"auth", "hasThirdPartyProviders">>)
            = Bool(\E k \in DOMAIN MergedProviders.v : MergedProviders.v[k] = T)

C2_Witness ==
    /\ Completed(2)
    /\ NODE_ENV = "production"
    /\ Overlay = Obj("auth" :> Obj("providers" :> Obj("facebook" :> T)))
    /\ \A n \in ProviderNames : base.v["auth"].v["providers"].v[n] = F
    /\ base.v["auth"].v["local"] = F
    /\ At(config, <<"auth", "hasThirdPartyProviders">>) = T

\* C5 (as stated): when the merged config.auth has no providers field (it
\* is null or undefined), the derivation statement aborts the module: it
\* never completes, with hasThirdPartyProviders defaulted or otherwise.
C5_MissingProvidersAborts ==
    (/\ Len(log) >= 2
     /\ isPlainObject(At(Merged, <<"auth">>))
     /\ isNullish(At(Merged, <<"auth", "providers">>))) =>
        (pc = "aborted" /\ Len(log) = 2)

\* C6: a statement that raised leaves the module aborted with nothing
\* exported, and whenever the config is exported every statement of the
\* pipeline has run and none has raised.
C6_ErrorsPropagate ==
    /\ error # "none" => (pc = "aborted" /\ ~IsExported)
    /\ pc = "aborted" => (error # "none" /\ ~IsExported)
    /\ IsExported => (log = Stages /\ error = "none" /\ pc = "done")

C6_Witness ==
    /\ pc = "aborted"
    /\ error = "Error"
    /\ log[Len(log)] = "use"
    /\ ~IsExported

\* C7 (as stated): once the config is exported, no step changes any field
\* of it.
C7_ExportedConfigNeverChanges == [][IsExported => config' = config]_vars

\* C8: when the config is exported, config.email.transport is the handle
\* createTransport returned, its compile list holds the base64ToS3
\* middleware and nothing else, use() was called once, and it was called
\* after the transport was created and before the export; an exported
\* config never holds any other transport.
C8_OneCompileMiddleware ==
    /\ IsExported =>
          /\ Read(config, config, <<"email", "transport">>) = Handle("transport")
          /\ plugins = <<"base64ToS3">>
          /\ useCalls = 1
    /\ useCalls <= 1
    /\ useCalls = 1 =>
          /\ Len(log) >= 9
          /\ log[8] = "createTransport"
          /\ log[9] = "use"
    /\ ~Completed(9) => (~IsExported /\ plugins = <<>>)

C8_Witness ==
    /\ IsExported
    /\ NODE_ENV = "production"
    /\ Overlay = Obj("email" :> Obj("transport" :> Scalar("x")))
    /\ Read(config, config, <<"email", "transport">>) = Handle("transport")
    /\ plugins = <<"base64ToS3">>

\* C9: the statements run in program order, each at most once and all of
\* them exactly once when the module finishes; hasThirdPartyProviders and
\* meta are computed from the merged config, meta after
\* hasThirdPartyProviders, and the collaborators are constructed only once
\* both derived fields are set.
C9_StagesInOrder ==
    /\ log = SubSeq(Stages, 1, Len(log))
    /\ pc = "done" => log = Stages
    /\ pc \notin {"done", "aborted"} => pc = Stages[Len(log) + 1]
    /\ (Completed(2) /\ isObject(At(Merged, <<"auth">>))) =>
          At(config, <<"auth", "hasThirdPartyProviders">>)
              = Bool(some(MergedProviders))
    /\ Completed(3) => At(config, <<"meta">>) = meta(Merged)
    /\ Len(log) >= 4 => (Completed(2) /\ Completed(3))

C9_Witness ==
    /\ pc = "done"
    /\ log = Stages
    /\ NODE_ENV = "production"
    /\ Overlay = Obj("auth" :> Obj("providers" :> Obj("custom" :> T)))
    /\ At(base, <<"auth", "providers", "facebook">>) = F
    /\ At(config, <<"auth", "hasThirdPartyProviders">>) = T

\* C10: building config.email.views and setting its root leave config.views
\* as it was; when the module finishes config.views.root is the root of the
\* merged config, config.email.views.root is the emails directory, and
\* config.email.views.options and .locals point at the very objects
\* config.views.options and .locals point at, so the translate filter and
\* locals.config are read through either.
C10_EmailViewsShallowCopy ==
    /\ pc \in {"emailViewsRoot", "emailI18n"} =>
          At(config, <<"views">>) = At(prev, <<"views">>)
    /\ pc = "done" =>
          /\ At(config, <<"views", "root">>) = At(Merged, <<"views", "root">>)
          /\ At(config, <<"email", "views", "root">>) = Scalar("emails")
          /\ \A k \in {"options", "locals"} :
                isObject(At(config, <<"views", k>>)) =>
                    At(config, <<"email", "views", k>>) = Ref(<<"views", k>>)
          /\ Read(config, config, <<"email", "views", "locals", "config">>)
                = Read(config, config, <<"views", "locals", "config">>)
          /\ Read(config, config, <<"views", "locals", "config">>) = Ref(<<>>)
          /\ Read(config, config, <<"email", "views", "locals", "filters">>)
                = Read(config, config, <<"views", "locals", "filters">>)
          /\ isObject(At(config, <<"views", "locals", "filters">>)) =>
                Read(config, config,
                     <<"email", "views", "locals", "filters", "translate">>)
                    = Fn("translate")

C10_Witness ==
    /\ pc = "done"
    /\ NODE_ENV = "development"
    /\ At(config, <<"views", "root">>) = Scalar("app/views")
    /\ At(config, <<"email", "views", "root">>) = Scalar("emails")
    /\ At(config, <<"email", "views", "locals">>) = Ref(<<"views", "locals">>)
    /\ Read(config, config,
            <<"email", "views", "locals", "filters", "translate">>)
          = Fn("translate")

====
